---- MODULE Spec2Model ----
(***************************************************************************)
(* Authorization, QR-identity and rate-limiting subsystem of confirmsure.  *)
(* Role model: app/lib/auth.js.  QR generator: lib/qr-generator.           *)
(* createProduct / listProducts: api/products route.  Gateway: middleware. *)
(***************************************************************************)
EXTENDS Integers, Sequences, FiniteSets, Bags, TLC

(***************************************************************************)
(* Bounds of the model                                                     *)
(***************************************************************************)
NumRequests == 2

Requests == 1..NumRequests

\* calls of the QR endpoint in flight at once
NumGenCalls == 1

GenCalls == {r \in Requests : r <= NumGenCalls}

(***************************************************************************)
(* Identity & role model (app/lib/auth.js)                                 *)
(***************************************************************************)
ROLES == [ADMIN |-> "admin",
          FACTORY_MANAGER |-> "factory_manager",
          FACTORY_OPERATOR |-> "factory_operator"]

PERMISSIONS ==
  [PRODUCTS  |-> [CREATE |-> "products:create", READ |-> "products:read",
                  UPDATE |-> "products:update", DELETE |-> "products:delete"],
   FACTORIES |-> [CREATE |-> "factories:create", READ |-> "factories:read",
                  UPDATE |-> "factories:update", DELETE |-> "factories:delete"],
   USERS     |-> [CREATE |-> "users:create", READ |-> "users:read",
                  UPDATE |-> "users:update", DELETE |-> "users:delete"],
   ANALYTICS |-> [READ |-> "analytics:read"]]

\* Object.values(rec)
ObjectValues(rec) == {rec[k] : k \in DOMAIN rec}

\* Object.values(PERMISSIONS).flatMap(p => Object.values(p))
AllPermissions == UNION {ObjectValues(p) : p \in ObjectValues(PERMISSIONS)}

\* a variant of the table: products:delete held by the operator and not by the
\* manager
ROLE_PERMISSIONS_NoDelete ==
  [admin |-> AllPermissions,
   factory_manager |-> {PERMISSIONS.PRODUCTS.CREATE, PERMISSIONS.PRODUCTS.READ,
                        PERMISSIONS.PRODUCTS.UPDATE,
                        PERMISSIONS.FACTORIES.READ, PERMISSIONS.FACTORIES.UPDATE,
                        PERMISSIONS.USERS.READ, PERMISSIONS.ANALYTICS.READ},
   factory_operator |-> {PERMISSIONS.PRODUCTS.CREATE, PERMISSIONS.PRODUCTS.READ,
                         PERMISSIONS.PRODUCTS.UPDATE, PERMISSIONS.PRODUCTS.DELETE}]

\* const ROLE_PERMISSIONS
ROLE_PERMISSIONS ==
  [admin |-> AllPermissions,
   factory_manager |-> {PERMISSIONS.PRODUCTS.CREATE, PERMISSIONS.PRODUCTS.READ,
                        PERMISSIONS.PRODUCTS.UPDATE, PERMISSIONS.PRODUCTS.DELETE,
                        PERMISSIONS.FACTORIES.READ, PERMISSIONS.FACTORIES.UPDATE,
                        PERMISSIONS.USERS.READ, PERMISSIONS.ANALYTICS.READ},
   factory_operator |-> {PERMISSIONS.PRODUCTS.CREATE, PERMISSIONS.PRODUCTS.READ,
                         PERMISSIONS.PRODUCTS.UPDATE}]

\* ROLE_PERMISSIONS[userRole] || []
PermissionsFor(role) ==
  IF role \in DOMAIN ROLE_PERMISSIONS THEN ROLE_PERMISSIONS[role] ELSE {}

\* "no user": getCurrentUser() returned null
NoUser == [id |-> "none", hasProfile |-> FALSE]

hasPermission(user, permission) ==
  IF user = NoUser \/ ~user.hasProfile
    THEN FALSE
    ELSE permission \in PermissionsFor(user.profile.role)

\* property names every object literal inherits from Object.prototype: a
\* lookup ROLE_PERMISSIONS[name] finds a function or an object, not undefined
InheritedKeys == {"constructor", "toString", "valueOf", "hasOwnProperty", "__proto__"}

\* ROLE_PERMISSIONS[userRole] || []
RoleLookup(role) ==
  IF role \in DOMAIN ROLE_PERMISSIONS
    THEN [kind |-> "array", values |-> ROLE_PERMISSIONS[role]]
  ELSE IF role \in InheritedKeys THEN [kind |-> "inherited", values |-> {}]
  ELSE [kind |-> "array", values |-> {}]

\* hasPermission(user, permission) as a call: its return value, or the
\* TypeError of rolePermissions.includes on a value that is not an array
hasPermissionCall(user, permission) ==
  IF user = NoUser \/ ~user.hasProfile THEN "false"
  ELSE LET rolePermissions == RoleLookup(user.profile.role)
       IN  IF rolePermissions.kind # "array" THEN "TypeError"
           ELSE IF permission \in rolePermissions.values THEN "true" ELSE "false"

(***************************************************************************)
(* Persistent principals and tenants                                       *)
(***************************************************************************)
Null == "null"
Factories == {"F1", "F2"}
Users == {"ua", "um", "uo"}

\* rows of user_profiles as seeded: one admin without a factory, a manager and
\* an operator of factory F1
SeedProfiles ==
  [ua |-> [role |-> ROLES.ADMIN, factory_id |-> Null, is_active |-> TRUE],
   um |-> [role |-> ROLES.FACTORY_MANAGER, factory_id |-> "F1", is_active |-> TRUE],
   uo |-> [role |-> ROLES.FACTORY_OPERATOR, factory_id |-> "F1", is_active |-> TRUE]]

(***************************************************************************)
(* QR identifiers are character sequences                                  *)
(***************************************************************************)
DigitChars == <<"0", "1", "2", "3", "4", "5", "6", "7", "8", "9">>

Digits == {DigitChars[i] : i \in 1..10}

\* `${n}` for a non-negative integer: decimal digits, no padding
RECURSIVE NumToString(_)
NumToString(n) ==
  IF n < 10 THEN <<DigitChars[n + 1]>>
            ELSE NumToString(n \div 10) \o <<DigitChars[(n % 10) + 1]>>

\* `CS-${randomNum}`
FormatQRCode(randomNum) == <<"C", "S", "-">> \o NumToString(randomNum)

\* /^CS-\d{6}$/.test(qrCode)
validateQRCodeFormat(qrCode) ==
  /\ Len(qrCode) = 9
  /\ qrCode[1] = "C" /\ qrCode[2] = "S" /\ qrCode[3] = "-"
  /\ \A i \in 4..9 : qrCode[i] \in Digits

\* values Math.floor(Math.random() * 900000) + 100000 takes in the model:
\* both ends of its range [100000, 999999]
RandomNums == {100000, 999999}

maxAttempts == 100

\* a variant of the loop condition: one iteration more
GenLoopGuardInclusive(attempts) == attempts <= maxAttempts

\* loop condition of generateUniqueQRCode: while (attempts < maxAttempts)
GenLoopGuard(attempts) == attempts < maxAttempts

\* the undefined / empty qr_code of a request body
NoCode == << >>

\* qr_code values a create request can carry: none, a well-formed one, and one
\* with five digits
BodyQrCodes == {NoCode, FormatQRCode(100000), <<"C", "S", "-", "1", "2", "3", "4", "5">>}

VARIABLES
  profiles,               \* user_profiles: user id -> [role, factory_id, is_active]
  sessions,               \* users holding a session of the auth platform
  products,               \* products table, a sequence of rows in insert order
  product_images,         \* product_images table
  authentication_markers, \* authentication_markers table
  batch_operations,       \* batch_operations table
  batch_operation_items,  \* batch_operation_items table
  audit_logs,             \* audit_logs table
  req,                    \* in-flight POST /api/products and /api/qr/generate requests
  resp,                   \* response of the last single-step handler
  rateLimitStore,         \* middleware: key -> [requests, windowStart]
  now,                    \* Date.now()
  admitted,               \* history: key -> timestamps of the admitted requests
  retryAt,                \* history: key -> earliest time a 429 told the client to
                          \* come back at, since the last admitted request
  rl                      \* result of the last applyRateLimit

vars == <<profiles, sessions, products, product_images, authentication_markers,
          batch_operations,
                 batch_operation_items, audit_logs, req, resp, rateLimitStore, now, admitted, retryAt, rl>>

accessVars == <<product_images, authentication_markers, batch_operations, batch_operation_items,
               resp>>

gatewayVars == <<rateLimitStore, now, admitted, retryAt, rl>>

(***************************************************************************)
(* Session resolution (app/lib/auth.js)                                    *)
(***************************************************************************)
Callers == Users \cup {"anon"}

\* getCurrentUser(): null without a session, else the auth user joined with
\* its user_profiles row
getCurrentUser(caller) ==
  IF caller \in sessions
    THEN [id |-> caller, hasProfile |-> TRUE, profile |-> profiles[caller]]
    ELSE NoUser

(***************************************************************************)
(* QR identity generator and POST /api/products                            *)
(***************************************************************************)
\* the count of a request body is a JSON number: its integer part and whether
\* a fraction of one half follows (100.5 is [whole |-> 100, half |-> TRUE])
NoCount == [whole |-> 0, half |-> FALSE]

\* a variant of the comparison: by the integer part of the count
CountGreaterWhole(count, n) == count.whole > n

\* count > n, for an integer n
CountGreater(count, n) == count.whole > n \/ (count.whole = n /\ count.half)

\* i < count, for an integer i
LessThanCount(i, count) == i < count.whole \/ (i = count.whole /\ count.half)

IdleReq ==
  [op |-> "none", pc |-> "idle", user |-> "none", role |-> "none",
   factory_id |-> Null, qr_code |-> NoCode, supplied |-> FALSE,
   generated |-> FALSE, attempts |-> 0, oracleError |-> FALSE,
   conflict |-> FALSE, product_id |-> 0, audit |-> "none",
   count |-> NoCount, i |-> 0, qrCodes |-> EmptyBag,
   status |-> 0, error |-> ""]

\* requests are numbered in their order of arrival
NextToArrive(r) == req[r].pc = "idle" /\ \A q \in Requests : q < r => req[q].pc # "idle"

\* NextResponse.json({ error }, { status })
Respond(r, status, error) ==
  [req[r] EXCEPT !.pc = "done", !.status = status, !.error = error]

\* SELECT qr_code FROM products WHERE qr_code = qrCode
QrCodeExists(qrCode) == \E i \in 1..Len(products) : products[i].qr_code = qrCode

\* request bodies: with or without a factory_id (one that differs from the
\* factory of every seeded non-admin), a qr_code, and the other fields valid
\* or not
ProductBodies ==
  [factory_id : {Null, "F2"}, qr_code : BodyQrCodes, valid : BOOLEAN]

\* callers of POST /api/products in the model
CreateCallers == {"anon", "ua", "uo"}

\* POST /api/products up to the first query on the catalog: session,
\* permission, body, productSchema
CreateProductStart(r, caller, body) ==
  /\ NextToArrive(r)
  /\ LET user == getCurrentUser(caller)
         factory_id == IF user # NoUser /\ user.profile.factory_id # Null
                         THEN user.profile.factory_id
                         ELSE body.factory_id
         started == [req[r] EXCEPT !.op = "createProduct", !.user = caller]
     IN  req' = [req EXCEPT ![r] =
           IF user = NoUser
             THEN [started EXCEPT !.pc = "done", !.status = 401,
                                  !.error = "Authentication required"]
           ELSE IF ~hasPermission(user, PERMISSIONS.PRODUCTS.CREATE)
             THEN [started EXCEPT !.pc = "done", !.status = 403,
                                  !.error = "Insufficient permissions",
                                  !.role = user.profile.role]
           ELSE IF ~body.valid \/ factory_id = Null
             THEN [started EXCEPT !.pc = "done", !.status = 400,
                                  !.error = "Validation failed",
                                  !.role = user.profile.role]
           ELSE IF body.qr_code = NoCode
             THEN [started EXCEPT !.pc = "gen", !.factory_id = factory_id,
                                  !.role = user.profile.role]
           ELSE [started EXCEPT !.pc = "check", !.factory_id = factory_id,
                                !.role = user.profile.role,
                                !.qr_code = body.qr_code, !.supplied = TRUE]]
  /\ UNCHANGED <<profiles, sessions, products, audit_logs, accessVars, gatewayVars>>

\* where generateUniqueQRCode returns to
BatchOps == {"qrBatch", "generateBatch"}

AfterGenerate(op) ==
  IF op = "createProduct" THEN "check"
  ELSE IF op \in BatchOps THEN "push"
  ELSE "image"

\* the catch of generateBatchQRCodes wraps what generateUniqueQRCode throws
Thrown(op, message) ==
  IF op \in BatchOps
    THEN IF message = "Database error checking QR code uniqueness"
           THEN "Batch QR code generation failed: Database error checking QR code uniqueness"
           ELSE "Batch QR code generation failed: Unable to generate unique QR code after 100 attempts"
    ELSE message

\* a variant of the iteration that reserves the candidate it returns by a
\* placeholder row in the catalog
GenAttemptReserving(r, randomNum, dbErr) ==
  /\ req[r].pc = "gen"
  /\ GenLoopGuard(req[r].attempts)
  /\ LET qrCode == FormatQRCode(randomNum)
     IN  IF dbErr \/ QrCodeExists(qrCode)
           THEN /\ req' = [req EXCEPT ![r] =
                     [req[r] EXCEPT !.pc = "done", !.status = 500]]
                /\ UNCHANGED products
           ELSE /\ req' = [req EXCEPT ![r] =
                     [req[r] EXCEPT !.pc = AfterGenerate(req[r].op),
                                    !.qr_code = qrCode, !.generated = TRUE]]
                /\ products' = Append(products,
                     [id |-> Len(products) + 1, qr_code |-> qrCode,
                      factory_id |-> req[r].factory_id, created_by |-> req[r].user,
                      status |-> "reserved"])
  /\ UNCHANGED <<profiles, sessions, audit_logs, accessVars, gatewayVars>>

\* a variant of the iteration that takes every error of the query for "no row
\* found"
GenAttemptAnyError(r, randomNum, dbErr) ==
  /\ req[r].pc = "gen"
  /\ GenLoopGuard(req[r].attempts)
  /\ LET qrCode == FormatQRCode(randomNum)
     IN  req' = [req EXCEPT ![r] =
           IF dbErr \/ ~QrCodeExists(qrCode)
             THEN [req[r] EXCEPT !.pc = AfterGenerate(req[r].op), !.attempts = 0,
                                 !.qr_code = qrCode, !.generated = TRUE,
                                 !.oracleError = dbErr]
           ELSE IF GenLoopGuard(req[r].attempts + 1)
             THEN [req[r] EXCEPT !.attempts = @ + 1]
           ELSE [req[r] EXCEPT !.attempts = @ + 1, !.pc = "done", !.status = 500,
                   !.error = "Unable to generate unique QR code after 100 attempts"]]
  /\ UNCHANGED <<profiles, sessions, products, audit_logs, accessVars, gatewayVars>>

\* one iteration of the loop of generateUniqueQRCode: draw, query the catalog,
\* return / throw / count the attempt; the loop exit follows the last counted
\* attempt without a further query.  attempts is a local of the call: it is
\* gone once the call has returned or thrown on a query error, and stands at
\* its last value in the exhaustion error.
GenAttempt(r, randomNum, dbErr) ==
  /\ req[r].pc = "gen"
  /\ GenLoopGuard(req[r].attempts)
  /\ LET qrCode == FormatQRCode(randomNum)
     IN  req' = [req EXCEPT ![r] =
           IF dbErr
             THEN [req[r] EXCEPT !.pc = "done", !.status = 500, !.attempts = 0,
                     !.oracleError = TRUE,
                     !.error = Thrown(req[r].op,
                                "Database error checking QR code uniqueness")]
           ELSE IF ~QrCodeExists(qrCode)
             THEN [req[r] EXCEPT !.pc = AfterGenerate(req[r].op), !.attempts = 0,
                                 !.qr_code = qrCode, !.generated = TRUE]
           ELSE IF GenLoopGuard(req[r].attempts + 1)
             THEN [req[r] EXCEPT !.attempts = @ + 1]
           ELSE [req[r] EXCEPT !.attempts = @ + 1, !.pc = "done", !.status = 500,
                   !.error = Thrown(req[r].op,
                     "Unable to generate unique QR code after 100 attempts")]]
  /\ UNCHANGED <<profiles, sessions, products, audit_logs, accessVars, gatewayVars>>

\* "Check if QR code is unique": the handler's own pre-check
CheckUnique(r) ==
  /\ req[r].pc = "check"
  /\ req' = [req EXCEPT ![r] =
       IF QrCodeExists(req[r].qr_code)
         THEN Respond(r, 409, "QR code already exists")
         ELSE [req[r] EXCEPT !.pc = "insert"]]
  /\ UNCHANGED <<profiles, sessions, products, audit_logs, accessVars, gatewayVars>>

\* a variant of the inserted row with another status
NewProductPending(r) ==
  [id |-> Len(products) + 1, qr_code |-> req[r].qr_code,
   factory_id |-> req[r].factory_id, created_by |-> req[r].user, status |-> "pending"]

\* a row of products as inserted by the handler
NewProduct(r) ==
  [id |-> Len(products) + 1, qr_code |-> req[r].qr_code,
   factory_id |-> req[r].factory_id, created_by |-> req[r].user, status |-> "draft"]

\* supabase.from('products').insert(...): qr_code is UNIQUE in the schema, so
\* a taken code is rejected with an error, and the error ends the request
\* with 500
InsertProduct(r) ==
  /\ req[r].pc = "insert"
  /\ IF QrCodeExists(req[r].qr_code)
       THEN /\ req' = [req EXCEPT ![r] =
                 [Respond(r, 500, "Failed to create product") EXCEPT !.conflict = TRUE]]
            /\ UNCHANGED products
       ELSE /\ products' = Append(products, NewProduct(r))
            /\ req' = [req EXCEPT ![r] =
                 [req[r] EXCEPT !.pc = "audit", !.product_id = Len(products) + 1]]
  /\ UNCHANGED <<profiles, sessions, audit_logs, accessVars, gatewayVars>>

AuditEntry(event_name, user_id, resource_type, resource_id) ==
  [event_name |-> event_name, user_id |-> user_id,
   resource_type |-> resource_type, resource_id |-> resource_id]

AuditOutcomes == {"ok", "error", "throw"}

\* "Log product creation", then the 201 response; a returned error is not
\* looked at, a rejected promise reaches the handler's catch
AuditProductCreated(r, outcome) ==
  /\ req[r].pc = "audit"
  /\ audit_logs' = IF outcome = "ok"
                     THEN Append(audit_logs,
                            AuditEntry("PRODUCT_CREATED", req[r].user, "product",
                                       req[r].product_id))
                     ELSE audit_logs
  /\ req' = [req EXCEPT ![r] =
       [(IF outcome = "throw" THEN Respond(r, 500, "fetch failed")
                              ELSE Respond(r, 201, ""))
          EXCEPT !.audit = outcome]]
  /\ UNCHANGED <<profiles, sessions, products, accessVars, gatewayVars>>

(***************************************************************************)
(* POST /api/qr/generate, type 'single'                                    *)
(***************************************************************************)
\* session check, then generateSingleQRCode calls generateUniqueQRCode
QrGenerateStart(r, caller) ==
  /\ NextToArrive(r)
  /\ LET user == getCurrentUser(caller)
         started == [req[r] EXCEPT !.op = "qrGenerate", !.user = caller]
     IN  req' = [req EXCEPT ![r] =
           IF user = NoUser
             THEN [started EXCEPT !.pc = "done", !.status = 401,
                                  !.error = "Authentication required"]
             ELSE [started EXCEPT !.pc = "gen", !.role = user.profile.role]]
  /\ UNCHANGED <<profiles, sessions, products, audit_logs, accessVars, gatewayVars>>

\* generateQRCodeImage, logQRCodeGeneration (which swallows every failure of
\* its own insert), then the success response
QrGenerateFinish(r, logged) ==
  /\ req[r].pc = "image"
  /\ audit_logs' = IF logged
                     THEN Append(audit_logs,
                            AuditEntry("QR_CODE_GENERATED", req[r].user, "qr_code",
                                       req[r].qr_code))
                     ELSE audit_logs
  /\ req' = [req EXCEPT ![r] = Respond(r, 200, "")]
  /\ UNCHANGED <<profiles, sessions, products, accessVars, gatewayVars>>

(***************************************************************************)
(* POST /api/qr/generate, type 'batch', and generateBatchQRCodes           *)
(***************************************************************************)
SyncBatchMax == 100
BatchMax == 1000

\* generateBatchQRCodes(count) up to the first draw: the ceiling, then the
\* loop condition i < count with i = 0
BatchEnter(started, count) ==
  IF CountGreater(count, BatchMax)
    THEN [started EXCEPT !.pc = "done", !.status = 500, !.count = count,
           !.error = "Batch QR code generation failed: Batch size cannot exceed 1000 QR codes"]
  ELSE IF LessThanCount(0, count)
    THEN [started EXCEPT !.pc = "gen", !.count = count]
  ELSE [started EXCEPT !.pc = "return", !.count = count]

\* POST with type 'batch': session, "Validate request", then
\* generateBatchQRCodesHandler
QrBatchStart(r, caller, count) ==
  /\ NextToArrive(r)
  /\ LET user == getCurrentUser(caller)
         started == [req[r] EXCEPT !.op = "qrBatch", !.user = caller]
     IN  req' = [req EXCEPT ![r] =
           IF user = NoUser
             THEN [started EXCEPT !.pc = "done", !.status = 401, !.count = count,
                                  !.error = "Authentication required"]
           ELSE IF CountGreater(count, SyncBatchMax)
             THEN [started EXCEPT !.pc = "done", !.status = 400, !.count = count,
                                  !.role = user.profile.role,
                                  !.error = "Batch size cannot exceed 100"]
           ELSE BatchEnter([started EXCEPT !.role = user.profile.role], count)]
  /\ UNCHANGED <<profiles, sessions, products, audit_logs, accessVars, gatewayVars>>

\* a call of generateBatchQRCodes(count) from the library
GenerateBatchCall(r, count) ==
  /\ NextToArrive(r)
  /\ req' = [req EXCEPT ![r] =
       BatchEnter([req[r] EXCEPT !.op = "generateBatch"], count)]
  /\ UNCHANGED <<profiles, sessions, products, audit_logs, accessVars, gatewayVars>>

\* the rest of one iteration: generateQRCodeImage, qrCodes.push, i++, and the
\* loop condition; the list is kept as the bag of its identifiers
BatchPush(r) ==
  /\ req[r].pc = "push"
  /\ req' = [req EXCEPT ![r] =
       [req[r] EXCEPT !.qrCodes = @ (+) SetToBag({req[r].qr_code}),
                      !.i = @ + 1,
                      !.pc = IF LessThanCount(req[r].i + 1, req[r].count)
                               THEN "gen" ELSE "return"]]
  /\ UNCHANGED <<profiles, sessions, products, audit_logs, accessVars, gatewayVars>>

\* return qrCodes; the endpoint logs `batch_${qrCodes.length}` and answers
BatchReturn(r, logged) ==
  /\ req[r].pc = "return"
  /\ audit_logs' = IF logged /\ req[r].op = "qrBatch"
                     THEN Append(audit_logs,
                            AuditEntry("QR_CODE_GENERATED", req[r].user, "qr_code",
                                       <<"batch", BagCardinality(req[r].qrCodes)>>))
                     ELSE audit_logs
  /\ req' = [req EXCEPT ![r] = Respond(r, 200, "")]
  /\ UNCHANGED <<profiles, sessions, products, accessVars, gatewayVars>>

(***************************************************************************)
(* Tenant-scoped handlers: markers, uploads, product and batch lists       *)
(***************************************************************************)
\* operations served in one run
MaxServed == 3

\* the handlers go on serving
CanServe == resp.n < MaxServed

NoRow == [id |-> 0]

Outcome(status, error) == [status |-> status, error |-> error]

\* .from('products').select(...).eq('id', id).single()
FindProduct(id) ==
  IF \E i \in 1..Len(products) : products[i].id = id
    THEN products[CHOOSE i \in 1..Len(products) : products[i].id = id]
    ELSE NoRow

\* .from('product_images').select('*, product:products(...)').eq('id', id).single()
FindImage(id) ==
  IF \E img \in product_images : img.id = id
    THEN CHOOSE img \in product_images : img.id = id
    ELSE NoRow

\* a variant without the factory check
FactoryAccessDeniedNever(user, factory_id) == FALSE

\* "Check factory access for non-admin users":
\* user.profile.role !== 'admin' && user.profile.factory_id !== factory_id
FactoryAccessDenied(user, factory_id) ==
  user.profile.role # "admin" /\ user.profile.factory_id # factory_id

\* what a handler answered, with the principal and the target it decided on
Response(op, caller, user, required, target, valid, outcome, rows) ==
  [op |-> op, caller |-> caller,
   role |-> IF user = NoUser THEN "none" ELSE user.profile.role,
   factory_id |-> IF user = NoUser THEN Null ELSE user.profile.factory_id,
   is_active |-> IF user = NoUser THEN FALSE ELSE user.profile.is_active,
   required |-> required,
   target_factory |-> IF target = NoRow THEN Null ELSE target.factory_id,
   valid |-> valid, status |-> outcome.status, error |-> outcome.error,
   rows |-> rows, n |-> resp.n + 1]

\* an insert into audit_logs whose result the caller does not look at: the
\* row is stored or the insert fails
AuditInsert(entry) ==
  \/ audit_logs' = audit_logs
  \/ audit_logs' = Append(audit_logs, entry)

ProductIds == {1, 2, 3}
ImageIds == {1, 2, 3}

\* POST /api/products/markers up to the insert
MarkersPostOutcome(user, valid, product) ==
  IF user = NoUser THEN Outcome(401, "Authentication required")
  ELSE IF ~hasPermission(user, PERMISSIONS.PRODUCTS.CREATE)
    THEN Outcome(403, "Insufficient permissions")
  ELSE IF ~valid THEN Outcome(400, "Validation failed")
  ELSE IF product = NoRow THEN Outcome(404, "Product not found")
  ELSE IF FactoryAccessDenied(user, product.factory_id)
    THEN Outcome(403, "Access denied to this product")
  ELSE Outcome(201, "")

MarkersPOST(caller, product_id, valid) ==
  /\ CanServe
  /\ LET user == getCurrentUser(caller)
         product == FindProduct(product_id)
         outcome == MarkersPostOutcome(user, valid, product)
         marker == [id |-> Len(authentication_markers) + 1, product_id |-> product_id]
     IN  /\ resp' = Response("markers.POST", caller, user, PERMISSIONS.PRODUCTS.CREATE,
                             product, valid, outcome, {})
         /\ IF outcome.status = 201
              THEN /\ authentication_markers' = Append(authentication_markers, marker)
                   /\ AuditInsert(AuditEntry("MARKER_CREATED", caller, "authentication_marker",
                                   marker.id))
              ELSE UNCHANGED <<authentication_markers, audit_logs>>
  /\ UNCHANGED <<profiles, sessions, products, product_images, batch_operations,
                 batch_operation_items,
                 req, gatewayVars>>

\* GET /api/products/markers?product_id=...
MarkersGetOutcome(user, valid, product) ==
  IF user = NoUser THEN Outcome(401, "Authentication required")
  ELSE IF ~valid THEN Outcome(400, "Product ID is required")
  ELSE IF product = NoRow THEN Outcome(404, "Product not found")
  ELSE IF FactoryAccessDenied(user, product.factory_id)
    THEN Outcome(403, "Access denied to this product")
  ELSE Outcome(200, "")

MarkersGET(caller, product_id, valid) ==
  /\ CanServe
  /\ LET user == getCurrentUser(caller)
         product == FindProduct(product_id)
         outcome == MarkersGetOutcome(user, valid, product)
         markers == {i \in 1..Len(authentication_markers) :
                       authentication_markers[i].product_id = product_id}
     IN  resp' = Response("markers.GET", caller, user, "none", product, valid, outcome,
                          IF outcome.status = 200
                            THEN {product.factory_id : i \in markers} ELSE {})
  /\ UNCHANGED <<profiles, sessions, products, product_images, authentication_markers,
                 batch_operations,
                 batch_operation_items, audit_logs, req, gatewayVars>>

\* POST /api/upload up to the processing of the file
UploadPostOutcome(user, valid, product, filesValid) ==
  IF user = NoUser THEN Outcome(401, "Authentication required")
  ELSE IF ~hasPermission(user, PERMISSIONS.PRODUCTS.CREATE)
    THEN Outcome(403, "Insufficient permissions")
  ELSE IF ~valid THEN Outcome(400, "Product ID is required")
  ELSE IF product = NoRow THEN Outcome(404, "Product not found")
  ELSE IF FactoryAccessDenied(user, product.factory_id)
    THEN Outcome(403, "Access denied to this product")
  ELSE IF ~filesValid THEN Outcome(400, "File validation failed")
  ELSE Outcome(200, "")

\* lowest id no row of product_images has
FreshImageId == CHOOSE id \in 1..(Cardinality(product_images) + 1) :
  /\ \A img \in product_images : img.id # id
  /\ \A other \in 1..(id - 1) : \E img \in product_images : img.id = other

\* the upload of one file: the image row gets a fresh id
UploadPOST(caller, product_id, valid, filesValid) ==
  /\ CanServe
  /\ LET user == getCurrentUser(caller)
         id == FreshImageId
         product == FindProduct(product_id)
         outcome == UploadPostOutcome(user, valid, product, filesValid)
     IN  /\ resp' = Response("upload.POST", caller, user, PERMISSIONS.PRODUCTS.CREATE,
                             product, valid, outcome, {})
         /\ IF outcome.status = 200
              THEN /\ product_images' = product_images \cup
                                          {[id |-> id, product_id |-> product_id]}
                   /\ AuditInsert(AuditEntry("IMAGES_UPLOADED", caller, "product", product_id))
              ELSE UNCHANGED <<product_images, audit_logs>>
  /\ UNCHANGED <<profiles, sessions, products, authentication_markers,
                 batch_operations,
                 batch_operation_items, req, gatewayVars>>

\* a variant of the image deletion with the factory check ahead of the
\* permission check
UploadDeleteOutcomeTenantFirst(user, valid, image, product) ==
  IF user = NoUser THEN Outcome(401, "Authentication required")
  ELSE IF ~valid THEN Outcome(400, "Image ID is required")
  ELSE IF image = NoRow THEN Outcome(404, "Image not found")
  ELSE IF FactoryAccessDenied(user, product.factory_id)
    THEN Outcome(403, "Access denied")
  ELSE IF ~hasPermission(user, PERMISSIONS.PRODUCTS.DELETE)
    THEN Outcome(403, "Insufficient permissions")
  ELSE Outcome(200, "")

\* DELETE /api/upload?imageId=... up to the deletion: the image is looked up
\* before the permission is checked
UploadDeleteOutcome(user, valid, image, product) ==
  IF user = NoUser THEN Outcome(401, "Authentication required")
  ELSE IF ~valid THEN Outcome(400, "Image ID is required")
  ELSE IF image = NoRow THEN Outcome(404, "Image not found")
  ELSE IF ~hasPermission(user, PERMISSIONS.PRODUCTS.DELETE)
    THEN Outcome(403, "Insufficient permissions")
  ELSE IF FactoryAccessDenied(user, product.factory_id)
    THEN Outcome(403, "Access denied")
  ELSE Outcome(200, "")

UploadDELETE(caller, imageId, valid) ==
  /\ CanServe
  /\ LET user == getCurrentUser(caller)
         image == FindImage(imageId)
         product == IF image = NoRow THEN NoRow ELSE FindProduct(image.product_id)
         outcome == UploadDeleteOutcome(user, valid, image, product)
     IN  /\ resp' = Response("upload.DELETE", caller, user, PERMISSIONS.PRODUCTS.DELETE,
                             product, valid, outcome, {})
         /\ IF outcome.status = 200
              THEN /\ product_images' = product_images \ {image}
                   /\ AuditInsert(AuditEntry("IMAGE_DELETED", caller, "product_image", imageId))
              ELSE UNCHANGED <<product_images, audit_logs>>
  /\ UNCHANGED <<profiles, sessions, products, authentication_markers,
                 batch_operations,
                 batch_operation_items, req, gatewayVars>>

\* a variant of the factory filter that lets the client's factory_id win
ProductsFilterClient(user, filter_factory_id) ==
  IF filter_factory_id # Null
    THEN {i \in 1..Len(products) : products[i].factory_id = filter_factory_id}
  ELSE IF user.profile.role # "admin"
    THEN {i \in 1..Len(products) : products[i].factory_id = user.profile.factory_id}
  ELSE 1..Len(products)

\* GET /api/products: "Apply factory filter for non-admin users"
ProductsFilter(user, filter_factory_id) ==
  IF user.profile.role # "admin"
    THEN {i \in 1..Len(products) : products[i].factory_id = user.profile.factory_id}
  ELSE IF filter_factory_id # Null
    THEN {i \in 1..Len(products) : products[i].factory_id = filter_factory_id}
  ELSE 1..Len(products)

ProductsGetOutcome(user, valid) ==
  IF user = NoUser THEN Outcome(401, "Authentication required")
  ELSE IF ~hasPermission(user, PERMISSIONS.PRODUCTS.READ)
    THEN Outcome(403, "Insufficient permissions")
  ELSE IF ~valid THEN Outcome(400, "Invalid search parameters")
  ELSE Outcome(200, "")

ProductsGET(caller, filter_factory_id, valid) ==
  /\ CanServe
  /\ LET user == getCurrentUser(caller)
         outcome == ProductsGetOutcome(user, valid)
     IN  resp' = Response("products.GET", caller, user, PERMISSIONS.PRODUCTS.READ,
                          NoRow, valid, outcome,
                          IF outcome.status = 200
                            THEN {products[i].factory_id :
                                    i \in ProductsFilter(user, filter_factory_id)}
                            ELSE {})
                 @@ [filter |-> filter_factory_id]
  /\ UNCHANGED <<profiles, sessions, products, product_images, authentication_markers,
                 batch_operations,
                 batch_operation_items, audit_logs, req, gatewayVars>>

\* GET /api/factory/batch: "Filter by factory for non-admin users"
BatchFilter(user) ==
  IF user.profile.role # "admin"
    THEN {b \in batch_operations : b.factory_id = user.profile.factory_id}
    ELSE batch_operations

BatchGET(caller) ==
  /\ CanServe
  /\ LET user == getCurrentUser(caller)
     IN  resp' = IF user = NoUser
           THEN Response("batch.GET", caller, user, "none", NoRow, TRUE,
                         Outcome(401, "Authentication required"), {})
           ELSE Response("batch.GET", caller, user, "none", NoRow, TRUE,
                         Outcome(200, ""), {b.factory_id : b \in BatchFilter(user)})
  /\ UNCHANGED <<profiles, sessions, products, product_images, authentication_markers,
                 batch_operations,
                 batch_operation_items, audit_logs, req, gatewayVars>>

(***************************************************************************)
(* POST /api/factory/batch                                                 *)
(***************************************************************************)
\* data lines of an uploaded file
MaxLines == 2

\* "Maximum 1000 items per batch"
MaxBatchItems == 1000

\* a data line of a CSV file: well formed, with a column count that differs
\* from the header's, or with a required field empty
LineKinds == {"ok", "malformed", "missing_field"}

CsvLines == UNION {[1..n -> LineKinds] : n \in 0..MaxLines}

NoFile == [type |-> "none", lines |-> << >>]

\* formData.get('file')
Files ==
  {NoFile, [type |-> "text/plain", lines |-> << >>],
   [type |-> "application/vnd.ms-excel", lines |-> << >>]}
    \cup {[type |-> "text/csv", lines |-> l] : l \in CsvLines}

allowedTypes == {"text/csv", "application/vnd.ms-excel",
                 "application/vnd.openxmlformats-officedocument.spreadsheetml.sheet"}

\* parseCSV(content) after its check for a data row: rows whose column count
\* differs from the header's are skipped
parseCSV(lines) == SelectSeq(lines, LAMBDA line : line # "malformed")

\* validateBatchItems(items, operationType).isValid
validateBatchItems(items, operationTypeKnown) ==
  /\ operationTypeKnown
  /\ \A i \in 1..Len(items) : items[i] # "missing_field"

\* results of the two inserts of the handler
BatchDbOutcomes == {"ok", "operationError", "itemsError"}

\* POST /api/factory/batch up to its response
BatchPostOutcome(user, file, operationTypeKnown, db) ==
  IF user = NoUser THEN Outcome(401, "Authentication required")
  ELSE IF ~hasPermission(user, PERMISSIONS.PRODUCTS.CREATE)
    THEN Outcome(403, "Insufficient permissions")
  ELSE IF file = NoFile THEN Outcome(400, "No file provided")
  ELSE IF file.type \notin allowedTypes THEN Outcome(400, "Invalid file type")
  ELSE IF file.type # "text/csv" \/ Len(file.lines) < 1
    THEN Outcome(400, "File parsing failed")
  ELSE IF Len(parseCSV(file.lines)) = 0 THEN Outcome(400, "No valid data found in file")
  ELSE IF Len(parseCSV(file.lines)) > MaxBatchItems
    THEN Outcome(400, "File contains too many items")
  ELSE IF ~validateBatchItems(parseCSV(file.lines), operationTypeKnown)
    THEN Outcome(400, "Missing required field")
  \* batch_operations.factory_id is NOT NULL: a profile without a factory
  \* makes the insert fail
  ELSE IF db = "operationError" \/ user.profile.factory_id = Null
    THEN Outcome(500, "Failed to create batch operation")
  ELSE IF db = "itemsError" THEN Outcome(500, "Failed to create batch items")
  ELSE Outcome(200, "")

\* the handler: the batch record is inserted first, then the item rows, then
\* the audit entry
BatchPOST(caller, file, operationTypeKnown, db) ==
  /\ CanServe
  /\ LET user == getCurrentUser(caller)
         outcome == BatchPostOutcome(user, file, operationTypeKnown, db)
         items == parseCSV(file.lines)
         id == Cardinality(batch_operations) + 1
         recordInserted == outcome.status = 200
                             \/ outcome.error = "Failed to create batch items"
     IN  /\ resp' = Response("batch.POST", caller, user, PERMISSIONS.PRODUCTS.CREATE,
                             NoRow, outcome.status # 400, outcome, {})
                    @@ [batch_id |-> id, submitted |-> Len(items)]
         /\ batch_operations' =
              IF recordInserted
                THEN batch_operations \cup
                       {[id |-> id, factory_id |-> user.profile.factory_id,
                         total_items |-> Len(items), status |-> "pending"]}
                ELSE batch_operations
         /\ batch_operation_items' =
              IF outcome.status = 200
                THEN batch_operation_items \cup
                       {[batch_operation_id |-> id, index |-> i, status |-> "pending"] :
                          i \in 1..Len(items)}
                ELSE batch_operation_items
         /\ IF outcome.status = 200
              THEN AuditInsert(AuditEntry("BATCH_OPERATION_CREATED", caller,
                                          "batch_operation", id))
              ELSE audit_logs' = audit_logs
  /\ UNCHANGED <<profiles, sessions, products, product_images, authentication_markers,
                 req, gatewayVars>>

(***************************************************************************)
(* Sessions and accounts (app/lib/auth.js)                                 *)
(***************************************************************************)
\* signIn(email, password, expectedRole): the platform opens the session as
\* soon as the password is right; the role and is_active checks that follow
\* throw without closing it
SignInOutcome(passwordOk, profile, expectedRole) ==
  IF ~passwordOk THEN Outcome(401, "Authentication failed")
  ELSE IF expectedRole # Null /\ profile.role # expectedRole
    THEN Outcome(403, "Insufficient permissions")
  ELSE IF ~profile.is_active THEN Outcome(403, "Account is deactivated")
  ELSE Outcome(200, "")

SignInEvent(outcome) ==
  IF outcome.status = 401 THEN "SIGN_IN_FAILED"
  ELSE IF outcome.error = "Insufficient permissions" THEN "ROLE_MISMATCH"
  ELSE IF outcome.error = "Account is deactivated" THEN "INACTIVE_USER_ATTEMPT"
  ELSE "SIGN_IN_SUCCESS"

signIn(u, passwordOk, expectedRole) ==
  /\ CanServe
  /\ LET outcome == SignInOutcome(passwordOk, profiles[u], expectedRole)
     IN  /\ sessions' = IF passwordOk THEN sessions \cup {u} ELSE sessions
         /\ AuditInsert(AuditEntry(SignInEvent(outcome), u, "auth", 0))
         /\ resp' = [Response("signIn", u, NoUser, "none", NoRow, TRUE, outcome, {})
                       EXCEPT !.role = profiles[u].role,
                              !.factory_id = profiles[u].factory_id,
                              !.is_active = profiles[u].is_active]
  /\ UNCHANGED <<profiles, products, product_images, authentication_markers,
                 batch_operations,
                 batch_operation_items, req, gatewayVars>>

\* an operation that answers through no response record was served
Served == [resp EXCEPT !.n = @ + 1]

\* signOut(): the event is logged if (user)
signOut(u) ==
  /\ CanServe
  /\ sessions' = sessions \ {u}
  /\ IF u \in sessions
       THEN AuditInsert(AuditEntry("SIGN_OUT_SUCCESS", u, "auth", 0))
       ELSE audit_logs' = audit_logs
  /\ resp' = Served
  /\ UNCHANGED <<profiles, products, product_images, authentication_markers,
                 batch_operations,
                 batch_operation_items, req, gatewayVars>>

\* deactivateUser(userId, deactivatedBy)
deactivateUser(u) ==
  /\ CanServe
  /\ profiles' = [profiles EXCEPT ![u].is_active = FALSE]
  /\ AuditInsert(AuditEntry("USER_DEACTIVATED", u, "auth", 0))
  /\ resp' = Served
  /\ UNCHANGED <<sessions, products, product_images, authentication_markers,
                 batch_operations,
                 batch_operation_items, req, gatewayVars>>

(***************************************************************************)
(* Page routes of the middleware                                           *)
(***************************************************************************)
\* a path is the sequence of its segments; a pattern such as /^\/admin/ has
\* no delimiter at its end, so its last segment matches every segment that
\* starts with it
PROTECTED_ROUTES ==
  [FACTORY |-> <<"factory">>, ADMIN |-> <<"admin">>,
   API_FACTORY |-> <<"api", "factory">>, API_ADMIN |-> <<"api", "admin">>]

\* the segments of the paths that start with another segment
SegmentPrefixes == {<<"administrator", "admin">>}

SegmentStartsWith(segment, prefix) ==
  segment = prefix \/ <<segment, prefix>> \in SegmentPrefixes

\* pattern.test(pathname)
RouteTest(pattern, pathname) ==
  /\ Len(pathname) >= Len(pattern)
  /\ \A i \in 1..(Len(pattern) - 1) : pathname[i] = pattern[i]
  /\ SegmentStartsWith(pathname[Len(pattern)], pattern[Len(pattern)])

isProtectedRoute(pathname) ==
  \E k \in DOMAIN PROTECTED_ROUTES : RouteTest(PROTECTED_ROUTES[k], pathname)

PagePaths ==
  {<<"admin", "dashboard">>, <<"administrator">>, <<"factory", "products">>,
   <<"about">>, <<"auth", "signin">>}

\* handleProtectedRoute(request, response) without the is_active test
ProtectedRouteOutcomeNoActive(caller, pathname) ==
  IF caller \notin sessions THEN Outcome(307, "/auth/signin")
  ELSE IF RouteTest(PROTECTED_ROUTES.ADMIN, pathname) /\ profiles[caller].role # "admin"
    THEN Outcome(307, "/auth/unauthorized")
  ELSE IF /\ RouteTest(PROTECTED_ROUTES.FACTORY, pathname)
          /\ profiles[caller].role \notin {"factory_manager", "factory_operator", "admin"}
    THEN Outcome(307, "/auth/unauthorized")
  ELSE Outcome(200, "")

\* handleProtectedRoute(request, response)
ProtectedRouteOutcome(caller, pathname) ==
  IF caller \notin sessions THEN Outcome(307, "/auth/signin")
  ELSE IF ~profiles[caller].is_active THEN Outcome(307, "/auth/unauthorized")
  ELSE IF RouteTest(PROTECTED_ROUTES.ADMIN, pathname) /\ profiles[caller].role # "admin"
    THEN Outcome(307, "/auth/unauthorized")
  ELSE IF /\ RouteTest(PROTECTED_ROUTES.FACTORY, pathname)
          /\ profiles[caller].role \notin {"factory_manager", "factory_operator", "admin"}
    THEN Outcome(307, "/auth/unauthorized")
  ELSE Outcome(200, "")

\* middleware(request) for a page path (no rate-limit rule matches one)
PageRequest(caller, pathname) ==
  /\ CanServe
  /\ LET outcome == IF isProtectedRoute(pathname)
                      THEN ProtectedRouteOutcome(caller, pathname)
                      ELSE Outcome(200, "")
         user == IF isProtectedRoute(pathname) THEN getCurrentUser(caller) ELSE NoUser
     IN  resp' = Response("page", caller, user, "none", NoRow, TRUE, outcome, {})
                   @@ [path |-> pathname]
  /\ UNCHANGED <<profiles, sessions, products, product_images, authentication_markers,
                 batch_operations,
                 batch_operation_items, audit_logs, req, gatewayVars>>

(***************************************************************************)
(* Rate limiting of the middleware                                         *)
(***************************************************************************)
\* The clock of the model counts milliseconds on a reduced scale: a second,
\* the windows, the ceilings and the age limit of the cleanup are scaled down
\* and keep their order (a second < a window < the 15-minute window < 24 hours).
MsPerSecond == 2
ApiWindowMs == 3
SigninWindowMs == 4
SigninMax == 1
ProductsMax == 2
UploadMax == 1
QrGenerateMax == 1
CleanupMaxAge == 5
MaxTime == 7
MaxAdmitted == 4

\* RATE_LIMITS in the order of its keys
RATE_LIMITS ==
  <<[pattern |-> <<"api", "auth", "signin">>, windowMs |-> SigninWindowMs, max |-> SigninMax],
    [pattern |-> <<"api", "products">>, windowMs |-> ApiWindowMs, max |-> ProductsMax],
    [pattern |-> <<"api", "upload">>, windowMs |-> ApiWindowMs, max |-> UploadMax],
    [pattern |-> <<"api", "qr", "generate">>, windowMs |-> ApiWindowMs, max |-> QrGenerateMax]>>

NoRule == [pattern |-> << >>, windowMs |-> 0, max |-> 0]

\* pathname.startsWith(pattern), on path segments
StartsWith(pathname, pattern) ==
  /\ Len(pathname) >= Len(pattern)
  /\ \A i \in 1..Len(pattern) : pathname[i] = pattern[i]

\* Object.entries(RATE_LIMITS).find(([pattern]) => pathname.startsWith(pattern))?.[1]
FindRateLimit(pathname) ==
  IF \E i \in 1..Len(RATE_LIMITS) : StartsWith(pathname, RATE_LIMITS[i].pattern)
    THEN RATE_LIMITS[CHOOSE i \in 1..Len(RATE_LIMITS) :
           /\ StartsWith(pathname, RATE_LIMITS[i].pattern)
           /\ \A j \in 1..(i - 1) : ~StartsWith(pathname, RATE_LIMITS[j].pattern)]
    ELSE NoRule

Clients == {"10.0.0.1"}

ApiPaths == {<<"api", "products">>, <<"api", "products", "123">>, <<"about">>}

\* `${clientIP}:${pathname}`
RateLimitKey(clientIP, pathname) == <<clientIP, pathname>>

Keys == {RateLimitKey(c, p) : c \in Clients, p \in ApiPaths}

\* a variant of the filter that keeps the timestamp on the window's edge
PruneInclusive(requests, windowStart) == SelectSeq(requests, LAMBDA time : time >= windowStart)

\* limitData.requests.filter(time => time > windowStart)
Prune(requests, windowStart) == SelectSeq(requests, LAMBDA time : time > windowStart)

\* Math.min(...requests)
MinOf(requests) ==
  CHOOSE m \in {requests[i] : i \in 1..Len(requests)} :
    \A i \in 1..Len(requests) : m <= requests[i]

\* Math.ceil(a / b) for b > 0
CeilDiv(a, b) == IF a % b = 0 THEN a \div b ELSE (a \div b) + 1

\* cleanupRateLimitStore(): drops every entry whose windowStart is older than
\* maxAge
cleanupRateLimitStore(store) ==
  LET kept == {k \in DOMAIN store : ~(now - store[k].windowStart > CleanupMaxAge)}
  IN  [k \in kept |-> store[k]]

NoHeaders == [limit |-> 0, remaining |-> 0, reset |-> 0, retryAfter |-> 0]

\* no 429 answered on the key since its last admitted request
NoRetry == -1

\* the time the Retry-After of a 429 answered at now points at, kept with the
\* earliest one the key was given
RetryAtAfter(key, retryAfter) ==
  LET at == now + retryAfter * MsPerSecond
  IN  IF retryAt[key] = NoRetry \/ at < retryAt[key] THEN at ELSE retryAt[key]

\* number of the requests admitted on the keys ks with a timestamp in
\* (t - windowMs, t]
AdmittedInWindow(ks, t, windowMs) ==
  LET InWindow(k) == SelectSeq(admitted[k], LAMBDA time : time > t - windowMs /\ time <= t)
      RECURSIVE Sum(_)
      Sum(S) == IF S = {} THEN 0
                ELSE LET k == CHOOSE x \in S : TRUE IN Len(InWindow(k)) + Sum(S \ {k})
  IN  Sum(ks)

TotalAdmitted == AdmittedInWindow(Keys, MaxTime, MaxTime + 1)

\* applyRateLimit(request); cleanup tells whether Math.random() < 0.01
applyRateLimit(clientIP, pathname, cleanup) ==
  /\ TotalAdmitted < MaxAdmitted
  /\ LET rateLimit == FindRateLimit(pathname)
         key == RateLimitKey(clientIP, pathname)
         windowStart == now - rateLimit.windowMs
         limitData == IF key \in DOMAIN rateLimitStore
                        THEN rateLimitStore[key]
                        ELSE [requests |-> << >>, windowStart |-> now]
         requests == Prune(limitData.requests, windowStart)
         prior == AdmittedInWindow({key}, now, rateLimit.windowMs)
         seen == [key |-> key, t |-> now, limited |-> TRUE, prior |-> prior,
                  max |-> rateLimit.max, windowMs |-> rateLimit.windowMs,
                  promised |-> retryAt[key]]
     IN  IF rateLimit = NoRule
           THEN /\ rl' = [key |-> key, t |-> now, limited |-> FALSE, prior |-> 0,
                          max |-> 0, windowMs |-> 0, promised |-> NoRetry,
                          blocked |-> FALSE, status |-> 200, headers |-> NoHeaders]
                /\ UNCHANGED <<rateLimitStore, admitted, retryAt>>
         ELSE IF Len(requests) >= rateLimit.max
           THEN LET resetTime == MinOf(requests) + rateLimit.windowMs
                    retryAfter == CeilDiv(resetTime - now, MsPerSecond)
                IN  \* middleware: new NextResponse('Too Many Requests', { status: 429 })
                    /\ rl' = [seen EXCEPT !.limited = TRUE] @@
                             [blocked |-> TRUE, status |-> 429,
                              headers |-> [limit |-> rateLimit.max, remaining |-> 0,
                                           reset |-> CeilDiv(resetTime, MsPerSecond),
                                           retryAfter |-> retryAfter]]
                    /\ retryAt' = [retryAt EXCEPT ![key] = RetryAtAfter(key, retryAfter)]
                    \* the filter assigned to the stored object
                    /\ rateLimitStore' = [rateLimitStore EXCEPT ![key].requests = requests]
                    /\ UNCHANGED admitted
         ELSE LET pushed == [limitData EXCEPT !.requests = Append(requests, now)]
                  stored == [k \in DOMAIN rateLimitStore \cup {key} |->
                               IF k = key THEN pushed ELSE rateLimitStore[k]]
              IN  /\ rateLimitStore' = IF cleanup THEN cleanupRateLimitStore(stored)
                                                  ELSE stored
                  /\ admitted' = [admitted EXCEPT ![key] = Append(@, now)]
                  /\ retryAt' = [retryAt EXCEPT ![key] = NoRetry]
                  /\ rl' = seen @@
                           [blocked |-> FALSE, status |-> 200,
                            headers |-> [limit |-> rateLimit.max,
                                         remaining |-> rateLimit.max - Len(pushed.requests),
                                         reset |-> CeilDiv(now + rateLimit.windowMs, MsPerSecond),
                                         retryAfter |-> 0]]
  /\ UNCHANGED <<now, profiles, sessions, products, audit_logs, req, accessVars>>

\* time passes
Tick ==
  /\ now < MaxTime
  /\ now' = now + 1
  /\ UNCHANGED <<rateLimitStore, admitted, retryAt, rl, profiles, sessions, products,
                 audit_logs, req, accessVars>>

(***************************************************************************)
(* Specifications                                                          *)
(***************************************************************************)
\* a products table holding one draft product per number of nums
CatalogOf(nums) ==
  [i \in 1..Len(nums) |->
     [id |-> i, qr_code |-> FormatQRCode(nums[i]), factory_id |-> "F1",
      created_by |-> "um", status |-> "draft"]]

EmptyTable == << >>

InitGateway ==
  /\ rateLimitStore = [k \in {} |-> 0]
  /\ now = 0
  /\ admitted = [k \in Keys |-> << >>]
  /\ retryAt = [k \in Keys |-> NoRetry]
  /\ rl = [limited |-> FALSE, blocked |-> FALSE]

InitPrincipals ==
  /\ profiles = SeedProfiles
  /\ sessions = Users

InitRequests ==
  /\ req = [r \in Requests |-> IdleReq]
  /\ audit_logs = << >>
  /\ product_images = {}
  /\ authentication_markers = EmptyTable
  /\ batch_operations = {}
  /\ batch_operation_items = {}
  /\ resp = [op |-> "none", n |-> 0]

\* createProduct requests racing on an empty catalog
InitCreate ==
  /\ InitPrincipals
  /\ InitRequests
  /\ InitGateway
  /\ products = EmptyTable

\* the draws of racing requests collide: every draw gives the same number
CreateNums == {100000}

NextCreate ==
  \/ \E r \in Requests, caller \in CreateCallers, body \in ProductBodies :
       CreateProductStart(r, caller, body)
  \/ \E r \in Requests, n \in CreateNums, dbErr \in BOOLEAN : GenAttempt(r, n, dbErr)
  \/ \E r \in Requests : CheckUnique(r)
  \/ \E r \in Requests : InsertProduct(r)
  \/ \E r \in Requests, outcome \in AuditOutcomes : AuditProductCreated(r, outcome)

SpecCreate == InitCreate /\ [][NextCreate]_vars

\* user_profiles.factory_id is nullable (ON DELETE SET NULL): the operator's
\* factory has been deleted
UnassignedProfiles == [SeedProfiles EXCEPT !["uo"].factory_id = Null]

\* createProduct requests while the operator has no factory
InitCreateUnassigned ==
  /\ profiles = UnassignedProfiles
  /\ sessions = Users
  /\ InitRequests
  /\ InitGateway
  /\ products = EmptyTable

SpecCreateUnassigned == InitCreateUnassigned /\ [][NextCreate]_vars

\* generate() calls of the QR endpoint against a catalog that is empty, partly
\* taken or wholly taken
SeedCatalogs == {CatalogOf(<< >>), CatalogOf(<<100000>>), CatalogOf(<<100000, 999999>>)}

InitGen ==
  /\ InitPrincipals
  /\ InitRequests
  /\ InitGateway
  /\ products \in SeedCatalogs

NextGen ==
  \/ \E r \in GenCalls, caller \in Callers : QrGenerateStart(r, caller)
  \/ \E r \in GenCalls, n \in RandomNums, dbErr \in BOOLEAN : GenAttempt(r, n, dbErr)
  \/ \E r \in GenCalls, logged \in BOOLEAN : QrGenerateFinish(r, logged)

SpecGen == InitGen /\ [][NextGen]_vars

\* role values of the user objects handed to hasPermission: the three roles,
\* values that are no role, and names an object literal inherits
RoleValues ==
  ObjectValues(ROLES) \cup {"viewer", "", "undefined", "Admin"} \cup InheritedKeys

PermissionValues == AllPermissions \cup {"orders:read", ""}

\* a call hasPermission(user, permission) on a user object with or without a
\* profile
HasPermissionCheck(role, hasProfile, permission) ==
  /\ CanServe
  /\ LET user == [id |-> "u", hasProfile |-> hasProfile,
                  profile |-> [role |-> role, factory_id |-> Null, is_active |-> TRUE]]
     IN  resp' = [op |-> "hasPermission", role |-> role, hasProfile |-> hasProfile,
                  permission |-> permission,
                  result |-> hasPermissionCall(user, permission), n |-> resp.n + 1]
  /\ UNCHANGED <<profiles, sessions, products, product_images, authentication_markers,
                 batch_operations, batch_operation_items, audit_logs, req, gatewayVars>>

NextRole ==
  \E role \in RoleValues, hasProfile \in BOOLEAN, permission \in PermissionValues :
    HasPermissionCheck(role, hasProfile, permission)

SpecRole == InitCreate /\ [][NextRole]_vars

(***************************************************************************)
(* generate_qr_code() of the database (database/schema.sql)                *)
(***************************************************************************)
\* prefix || '-' || LPAD(FLOOR(RANDOM() * 999999)::TEXT, 6, '0'), with the
\* seeded qr_code_prefix "CS"
FormatSqlCode(num) ==
  LET digits == NumToString(num)
  IN  <<"C", "S", "-">> \o [i \in 1..(6 - Len(digits)) |-> "0"] \o digits

\* values FLOOR(RANDOM() * 999999) takes in the model: both ends of its range
\* [0, 999998] and a number the application draws too
SqlRandomNums == {0, 100000, 999998}

\* a catalog that is empty, or holds every candidate of the model
SqlCatalogs ==
  {EmptyTable,
   [i \in 1..3 |->
      [id |-> i, qr_code |-> FormatSqlCode(<<0, 100000, 999998>>[i]),
       factory_id |-> "F1", created_by |-> "um", status |-> "draft"]]}

\* SELECT generate_qr_code(): DECLARE counter INTEGER := 0
SqlGenerateStart(r) ==
  /\ NextToArrive(r)
  /\ req' = [req EXCEPT ![r] = [req[r] EXCEPT !.op = "generate_qr_code", !.pc = "loop"]]
  /\ UNCHANGED <<profiles, sessions, products, audit_logs, accessVars, gatewayVars>>

\* one iteration of its LOOP: draw, IF NOT EXISTS ... RETURN, else count and
\* raise once counter > 100; attempts is the counter
SqlGenAttempt(r, num) ==
  /\ req[r].pc = "loop"
  /\ LET new_code == FormatSqlCode(num)
     IN  req' = [req EXCEPT ![r] =
           IF ~QrCodeExists(new_code)
             THEN [req[r] EXCEPT !.pc = "done", !.status = 200,
                                 !.qr_code = new_code, !.generated = TRUE]
           ELSE IF req[r].attempts + 1 > 100
             THEN [req[r] EXCEPT !.attempts = @ + 1, !.pc = "done", !.status = 500,
                     !.error = "Unable to generate unique QR code after 100 attempts"]
           ELSE [req[r] EXCEPT !.attempts = @ + 1]]
  /\ UNCHANGED <<profiles, sessions, products, audit_logs, accessVars, gatewayVars>>

InitSql ==
  /\ InitPrincipals
  /\ InitRequests
  /\ InitGateway
  /\ products \in SqlCatalogs

NextSql ==
  \/ \E r \in Requests : SqlGenerateStart(r)
  \/ \E r \in Requests, num \in SqlRandomNums : SqlGenAttempt(r, num)

SpecSql == InitSql /\ [][NextSql]_vars

(***************************************************************************)
(* Verification URLs (lib/qr-generator)                                    *)
(***************************************************************************)
\* path segments are character sequences, as the identifiers are
ProductSegment == <<"p", "r", "o", "d", "u", "c", "t">>
EmptySegment == << >>

\* a string new URL() rejects
NotAUrl == [valid |-> FALSE, segments |-> << >>]

\* process.env.NEXT_PUBLIC_APP_URL || 'https://confirmsure.com': the path
\* segments the base brings: none, or an empty one for a base written with a
\* slash at its end
AppUrlBases == {<< >>, <<EmptySegment>>}

\* `${base}/product/${qrCode}`
verificationURL(base, qrCode) ==
  [valid |-> TRUE, segments |-> base \o <<ProductSegment, qrCode>>]

\* urlObj.pathname.split('/'): the pathname starts with a slash
PathParts(url) == <<EmptySegment>> \o url.segments

NoQrCode == <<"n", "u", "l", "l">>

\* extractQRCodeFromURL(url)
extractQRCodeFromURL(url) ==
  IF ~url.valid THEN NoQrCode
  ELSE LET pathParts == PathParts(url)
       IN  IF /\ Len(pathParts) >= 3 /\ pathParts[2] = ProductSegment
              /\ validateQRCodeFormat(pathParts[3])
             THEN pathParts[3]
             ELSE NoQrCode

\* identifiers and other segments of the URLs of the model
UrlCodes == {FormatQRCode(n) : n \in RandomNums}

UrlSegments ==
  UrlCodes \cup {ProductSegment, EmptySegment, <<"C", "S", "-", "1", "2", "3", "4", "5">>,
                 <<"c", "s", "-", "1", "0", "0", "0", "0", "0">>}

MaxSegments == 3

UrlPaths == UNION {[1..n -> UrlSegments] : n \in 0..MaxSegments}

\* extractQRCodeFromURL(verificationURL) for a generated image
RoundTrip(base, qrCode) ==
  /\ CanServe
  /\ LET url == verificationURL(base, qrCode)
     IN  resp' = [op |-> "roundTrip", url |-> url, qrCode |-> qrCode,
                  result |-> extractQRCodeFromURL(url), n |-> resp.n + 1]
  /\ UNCHANGED <<profiles, sessions, products, product_images, authentication_markers,
                 batch_operations, batch_operation_items, audit_logs, req, gatewayVars>>

\* extractQRCodeFromURL(url) for a URL from anywhere
Extract(url) ==
  /\ CanServe
  /\ resp' = [op |-> "extract", url |-> url, qrCode |-> NoQrCode,
              result |-> extractQRCodeFromURL(url), n |-> resp.n + 1]
  /\ UNCHANGED <<profiles, sessions, products, product_images, authentication_markers,
                 batch_operations, batch_operation_items, audit_logs, req, gatewayVars>>

NextUrl ==
  \/ \E base \in AppUrlBases, qrCode \in UrlCodes : RoundTrip(base, qrCode)
  \/ \E path \in UrlPaths : Extract([valid |-> TRUE, segments |-> path])
  \/ Extract(NotAUrl)

SpecUrl == InitCreate /\ [][NextUrl]_vars

\* counts of batch requests: around the ceilings of the endpoint and of the
\* library
BatchCounts ==
  {[whole |-> 0, half |-> FALSE], [whole |-> 2, half |-> FALSE],
   [whole |-> SyncBatchMax - 1, half |-> TRUE],
   [whole |-> SyncBatchMax, half |-> FALSE], [whole |-> SyncBatchMax, half |-> TRUE],
   [whole |-> SyncBatchMax + 1, half |-> FALSE],
   [whole |-> BatchMax, half |-> TRUE], [whole |-> BatchMax + 1, half |-> FALSE]}

\* counts of direct calls of the library: small ones and those over its ceiling
CallCounts == {c \in BatchCounts : c.whole < SyncBatchMax \/ CountGreater(c, BatchMax)}

\* a batch call reads the catalog and writes nothing another call reads: the
\* calls are taken one at a time
BatchCalls == {r \in Requests : \A q \in Requests : r <= q}

\* uploaded files of one line and of one line more than the ceiling of the
\* batch upload
LargeFiles ==
  {[type |-> "text/csv", lines |-> [i \in 1..n |-> "ok"]] :
     n \in {1, MaxBatchItems + 1}}

\* batch generation against a catalog that is empty or wholly taken
BatchCatalogs == {CatalogOf(<< >>), CatalogOf(<<100000, 999999>>)}

InitQrBatch ==
  /\ InitPrincipals
  /\ InitRequests
  /\ InitGateway
  /\ products \in BatchCatalogs

\* batch generation by a visitor or by the manager of a factory
NextQrBatch ==
  \/ \E r \in BatchCalls, caller \in {"anon", "um"}, count \in BatchCounts :
       QrBatchStart(r, caller, count)
  \/ \E r \in BatchCalls, count \in CallCounts : GenerateBatchCall(r, count)
  \/ \E r \in BatchCalls, n \in RandomNums, dbErr \in BOOLEAN : GenAttempt(r, n, dbErr)
  \/ \E r \in BatchCalls : BatchPush(r)
  \/ \E r \in BatchCalls, logged \in BOOLEAN : BatchReturn(r, logged)

SpecQrBatch == InitQrBatch /\ [][NextQrBatch]_vars

\* the ceilings of batch generation and of the batch upload: batches whose
\* draws are all alike, and the manager's uploads of large files
NextCeilings ==
  \/ \E r \in BatchCalls, caller \in {"anon", "um"}, count \in BatchCounts :
       QrBatchStart(r, caller, count)
  \/ \E r \in BatchCalls, count \in CallCounts : GenerateBatchCall(r, count)
  \/ \E r \in BatchCalls, n \in CreateNums, dbErr \in BOOLEAN : GenAttempt(r, n, dbErr)
  \/ \E r \in BatchCalls : BatchPush(r)
  \/ \E r \in BatchCalls, logged \in BOOLEAN : BatchReturn(r, logged)
  \/ \E file \in LargeFiles : BatchPOST("um", file, TRUE, "ok")

SpecCeilings == InitQrBatch /\ [][NextCeilings]_vars

\* the tenant-scoped handlers on a catalog with one product, one image and one
\* batch per factory, every seeded user signed in
AccessCatalog ==
  <<[id |-> 1, qr_code |-> FormatQRCode(100000), factory_id |-> "F1",
     created_by |-> "um", status |-> "draft"],
    [id |-> 2, qr_code |-> FormatQRCode(999999), factory_id |-> "F2",
     created_by |-> "ua", status |-> "draft"]>>

InitTables ==
  /\ products = AccessCatalog
  /\ product_images = {[id |-> 1, product_id |-> 1], [id |-> 2, product_id |-> 2]}
  /\ authentication_markers = EmptyTable
  /\ batch_operations = {[id |-> 1, factory_id |-> "F1"], [id |-> 2, factory_id |-> "F2"]}
  /\ batch_operation_items = {}
  /\ audit_logs = << >>
  /\ req = [r \in Requests |-> IdleReq]
  /\ resp = [op |-> "none", n |-> 0]

InitAccess ==
  /\ InitPrincipals
  /\ InitTables
  /\ InitGateway

NextAccess ==
  \/ \E caller \in Callers, product_id \in ProductIds, valid \in BOOLEAN :
       MarkersPOST(caller, product_id, valid)
  \/ \E caller \in Callers, product_id \in ProductIds, valid \in BOOLEAN :
       MarkersGET(caller, product_id, valid)
  \/ \E caller \in Callers, product_id \in ProductIds, valid \in BOOLEAN,
        filesValid \in BOOLEAN : UploadPOST(caller, product_id, valid, filesValid)
  \/ \E caller \in Callers, imageId \in ImageIds, valid \in BOOLEAN :
       UploadDELETE(caller, imageId, valid)
  \/ \E caller \in Callers, filter_factory_id \in Factories \cup {Null},
        valid \in BOOLEAN : ProductsGET(caller, filter_factory_id, valid)
  \/ \E caller \in Callers : BatchGET(caller)

SpecAccess == InitAccess /\ [][NextAccess]_vars

\* accounts and sessions over time: sign-in, sign-out and deactivation around
\* page requests and API calls; nobody is signed in at first
InitSession ==
  /\ profiles = SeedProfiles
  /\ sessions = {}
  /\ InitTables
  /\ InitGateway

NextSession ==
  \/ \E u \in Users, passwordOk \in BOOLEAN, expectedRole \in {Null, "admin"} :
       signIn(u, passwordOk, expectedRole)
  \/ \E u \in Users : signOut(u)
  \/ \E u \in Users : deactivateUser(u)
  \/ \E caller \in Callers, pathname \in PagePaths : PageRequest(caller, pathname)
  \/ \E caller \in Callers, filter_factory_id \in Factories \cup {Null},
        valid \in BOOLEAN : ProductsGET(caller, filter_factory_id, valid)

SpecSession == InitSession /\ [][NextSession]_vars

\* batch uploads and batch lists
NextBatch ==
  \/ \E caller \in Callers, file \in Files, operationTypeKnown \in BOOLEAN,
        db \in BatchDbOutcomes : BatchPOST(caller, file, operationTypeKnown, db)
  \/ \E caller \in Callers : BatchGET(caller)

SpecBatch == InitAccess /\ [][NextBatch]_vars

\* one process of the middleware serving requests as time passes
InitRL ==
  /\ InitPrincipals
  /\ InitRequests
  /\ InitGateway
  /\ products = EmptyTable

NextRL ==
  \/ \E clientIP \in Clients, pathname \in ApiPaths, cleanup \in BOOLEAN :
       applyRateLimit(clientIP, pathname, cleanup)
  \/ Tick

SpecRL == InitRL /\ [][NextRL]_vars

(***************************************************************************)
(* Properties                                                              *)
(***************************************************************************)
ExhaustionError == "Unable to generate unique QR code after 100 attempts"

Allowed == {200, 201}

\* requests that are over and whose generate() call returned a candidate
GeneratedDone == {r \in Requests : req[r].pc = "done" /\ req[r].generated}

\* C1: when no request brings an identifier of its own, the N create requests
\* that each got a candidate from generate() all have their identifier
\* accepted (persisted), and the accepted identifiers are N distinct ones.
C1_AllGeneratedAccepted ==
  (\A r \in Requests : ~req[r].supplied) =>
    Cardinality({req[r].qr_code : r \in {g \in GeneratedDone : req[g].product_id # 0}})
      = Cardinality(GeneratedDone)

\* C2: a create request whose insert of a generated identifier was rejected by
\* the uniqueness constraint does not fail on it: it goes on (retries) and
\* ends in success, or in the exhaustion error once the 100-attempt ceiling is
\* used up.
C2_RetryOnInsertConflict ==
  \A r \in Requests :
    req[r].generated /\ req[r].conflict /\ req[r].pc = "done" =>
      req[r].status = 201 \/ req[r].error = ExhaustionError

\* C3: generate() never makes more than 100 oracle queries (each iteration of
\* its loop makes one, and a call still looping has counted fewer than 100
\* taken candidates), and it fails with the exhaustion error exactly when 100
\* queries were each answered "taken".
C3_GenerateBounded ==
  \A r \in Requests :
    /\ req[r].attempts <= maxAttempts
    /\ req[r].pc = "gen" => req[r].attempts < maxAttempts
    /\ req[r].error = ExhaustionError <=> req[r].attempts = maxAttempts

C3_Witness ==
  \E r \in Requests :
    /\ req[r].pc = "done" /\ req[r].status = 500
    /\ req[r].error = ExhaustionError /\ req[r].attempts = maxAttempts

\* C4: the qr_code of every persisted product matches ^CS-\d{6}$.
C4_PersistedFormat ==
  \A i \in 1..Len(products) : validateQRCodeFormat(products[i].qr_code)

TargetOps == {"markers.POST", "markers.GET", "upload.POST", "upload.DELETE"}

ListOps == {"markers.GET", "products.GET", "batch.GET"}

\* C5: a non-admin principal is never allowed on a product or image of another
\* factory (a well-formed request gets 403), the lists a non-admin gets hold
\* rows of the principal's own factory only, and an admin who holds the
\* permission is not denied whatever the factory of the target.
C5_TenantIsolation ==
  /\ resp.op \in TargetOps /\ resp.role \in {"factory_manager", "factory_operator"}
       /\ resp.target_factory # Null /\ resp.target_factory # resp.factory_id
     => /\ resp.status \notin Allowed
        /\ resp.valid => resp.status = 403
  /\ resp.op \in ListOps /\ resp.role \in {"factory_manager", "factory_operator"}
     => resp.rows \subseteq {resp.factory_id}
  /\ resp.op \in TargetOps /\ resp.role = "admin" /\ resp.target_factory # Null
       /\ resp.valid
       /\ (resp.required = "none" \/ resp.required \in PermissionsFor("admin"))
     => resp.status \notin {401, 403, 404}

C5_Witness ==
  /\ resp.op = "upload.DELETE" /\ resp.role = "factory_manager"
  /\ resp.factory_id = "F1" /\ resp.target_factory = "F2"
  /\ resp.status = 403 /\ resp.error = "Access denied"

\* C6: no API handler and no page route answers a principal whose profile has
\* is_active = false with success.
C6_InactiveNeverAllowed ==
  resp.op # "none" /\ resp.role # "none" /\ ~resp.is_active
    => resp.status \notin Allowed

PermissionOps == {"markers.POST", "upload.POST", "upload.DELETE", "products.GET"}

\* C7: an authenticated principal who lacks the permission of the handler gets
\* 403 "Insufficient permissions", also when the target belongs to another
\* factory (for the image deletion: once the image named by the request is
\* found).
C7_PermissionBeforeTenant ==
  /\ resp.op \in PermissionOps /\ resp.role # "none"
  /\ resp.required \notin PermissionsFor(resp.role)
  /\ resp.op = "upload.DELETE" => resp.valid /\ resp.target_factory # Null
  => resp.status = 403 /\ resp.error = "Insufficient permissions"

C7_Witness ==
  /\ resp.op = "upload.DELETE" /\ resp.role = "factory_operator"
  /\ resp.target_factory = "F2" /\ resp.factory_id = "F1"
  /\ resp.status = 403 /\ resp.error = "Insufficient permissions"

\* C8: among the signed-in principals, whatever products permission a
\* factory_operator is granted a factory_manager is granted too, and whatever
\* a factory_manager is granted an admin is granted too; analytics:read is
\* granted to exactly the managers and the admins.
C8_RoleMonotonicity ==
  LET onProducts == ObjectValues(PERMISSIONS.PRODUCTS)
      below == {<<"factory_operator", "factory_manager">>, <<"factory_manager", "admin">>}
      Role(u) == getCurrentUser(u).profile.role
  IN  /\ \A u, v \in sessions, permission \in onProducts :
           <<Role(u), Role(v)>> \in below /\ hasPermission(getCurrentUser(u), permission)
             => hasPermission(getCurrentUser(v), permission)
      /\ \A u \in sessions :
           hasPermission(getCurrentUser(u), PERMISSIONS.ANALYTICS.READ)
             <=> Role(u) \in {"factory_manager", "admin"}

\* a manager deletes an image of the own factory, which an operator may not
C8_Witness ==
  /\ resp.op = "upload.DELETE" /\ resp.role = "factory_manager"
  /\ resp.required = PERMISSIONS.PRODUCTS.DELETE /\ resp.status = 200

\* C9: a request on a key is admitted if and only if fewer than max of the
\* requests admitted before on that key have a timestamp in (t - windowMs, t].
C9_SlidingWindow ==
  rl.limited => (rl.blocked <=> rl.prior >= rl.max)

\* keys of one client whose paths match the rule of pattern
KeysOfPattern(clientIP, pattern) ==
  {k \in Keys : k[1] = clientIP /\ FindRateLimit(k[2]).pattern = pattern}

\* C10: for one client and one route pattern, no window (t - windowMs, t]
\* holds more than max admitted requests, over all paths matching the pattern.
C10_KeyedByPattern ==
  \A clientIP \in Clients, i \in 1..Len(RATE_LIMITS), t \in 0..now :
    AdmittedInWindow(KeysOfPattern(clientIP, RATE_LIMITS[i].pattern), t,
                     RATE_LIMITS[i].windowMs) <= RATE_LIMITS[i].max

C12_ListScopedToTenant ==
  resp.op = "products.GET" /\ resp.role \in {"factory_manager", "factory_operator"}
    /\ resp.status = 200
  => resp.rows = {products[i].factory_id :
                    i \in {j \in 1..Len(products) : products[j].factory_id = resp.factory_id}}

\* a manager of F1 asking for the products of F2
C12_Witness ==
  /\ resp.op = "products.GET" /\ resp.role = "factory_manager"
  /\ resp.factory_id = "F1" /\ resp.filter = "F2"
  /\ resp.status = 200 /\ resp.rows = {"F1"}

\* PRODUCT_CREATED entries of the audit log that refer to product id
ProductCreatedEntries(id) ==
  {i \in 1..Len(audit_logs) :
     /\ audit_logs[i].event_name = "PRODUCT_CREATED"
     /\ audit_logs[i].resource_type = "product"
     /\ audit_logs[i].resource_id = id}

\* the rows of products a request persisted
ProductsOf(r) == {i \in 1..Len(products) : products[i].id = req[r].product_id}

\* C13 as stated: a createProduct answered 201 has persisted exactly one
\* product, in status draft, and exactly one PRODUCT_CREATED entry refers to
\* it.
C13_ExactlyOneAuditEntry ==
  \A r \in Requests :
    req[r].op = "createProduct" /\ req[r].pc = "done" /\ req[r].status = 201 =>
      /\ Cardinality(ProductsOf(r)) = 1
      /\ \A i \in ProductsOf(r) : products[i].status = "draft"
      /\ Cardinality(ProductCreatedEntries(req[r].product_id)) = 1

\* C13 amended: a createProduct answered 201 has persisted exactly one
\* product, with the request's identifier, factory and creator and in status
\* draft; exactly one PRODUCT_CREATED entry refers to it if the audit write
\* succeeded and none if it returned an error; a createProduct that failed
\* authentication, permission or validation has persisted no product and no
\* PRODUCT_CREATED entry, so that every row and every entry belongs to a
\* request that passed them.
C13_DraftAndAuditIfWritten ==
  /\ \A r \in Requests :
       req[r].op = "createProduct" /\ req[r].pc = "done" /\ req[r].status = 201 =>
         /\ Cardinality(ProductsOf(r)) = 1
         /\ \A i \in ProductsOf(r) :
              /\ products[i].status = "draft"
              /\ products[i].qr_code = req[r].qr_code
              /\ products[i].factory_id = req[r].factory_id
              /\ products[i].created_by = req[r].user
         /\ \A q \in Requests \ {r} : req[q].product_id # req[r].product_id
         /\ Cardinality(ProductCreatedEntries(req[r].product_id))
              = IF req[r].audit = "ok" THEN 1 ELSE 0
  /\ \A r \in Requests :
       req[r].op = "createProduct" /\ req[r].pc = "done"
         /\ req[r].status \in {400, 401, 403}
       => req[r].product_id = 0 /\ req[r].audit = "none"
  /\ Len(products) = Cardinality({r \in Requests : req[r].product_id # 0})
  /\ Len(audit_logs) = Cardinality({r \in Requests : req[r].audit = "ok"})

\* a product created with its audit entry, after a request that failed
\* validation
C13_Witness ==
  \E r, q \in Requests :
    /\ req[r].pc = "done" /\ req[r].status = 201 /\ req[r].audit = "ok"
    /\ Cardinality(ProductCreatedEntries(req[r].product_id)) = 1
    /\ req[q].pc = "done" /\ req[q].status = 400

\* the tables of the persistence layer
tables == <<products, product_images, authentication_markers, batch_operations, batch_operation_items,
            audit_logs>>

\* the step is a single-step handler answering a caller who is authenticated,
\* holds the required permission and is admin or of the target's factory
DecidedAllow ==
  /\ resp' # resp
  /\ resp'.status \notin {401, 403, 404}
  /\ resp'.role # "none"
  /\ resp'.required = "none" \/ resp'.required \in PermissionsFor(resp'.role)
  /\ \/ resp'.target_factory = Null
     \/ resp'.role = "admin"
     \/ resp'.target_factory = resp'.factory_id

\* the step is taken by a request past its authentication and permission
\* checks
RequestPastChecks ==
  \E r \in Requests :
    /\ req'[r] # req[r]
    /\ req[r].pc \in {"insert", "audit", "image"}
    /\ req[r].role # "none"
    /\ req[r].op = "createProduct"
         => PERMISSIONS.PRODUCTS.CREATE \in PermissionsFor(req[r].role)

C15_AuditFailureNotSurfaced ==
  \A r \in Requests :
    req[r].op = "createProduct" /\ req[r].pc = "done" /\ req[r].product_id # 0
      /\ req[r].audit \in {"error", "throw"}
    => req[r].status = 201

\* C16: after a createBatchOperation request the tables hold either the batch
\* record of the request together with one item row for every item parsed
\* from the file, or no row of the request.
C16_BatchAllOrNothing ==
  resp.op = "batch.POST" =>
    LET records == {b \in batch_operations : b.id = resp.batch_id}
        items == {i \in batch_operation_items : i.batch_operation_id = resp.batch_id}
    IN  \/ records = {} /\ items = {}
        \/ Cardinality(records) = 1 /\ Cardinality(items) = resp.submitted

\* C17: a non-admin principal who sends a well-formed request for a product or
\* image of another factory, holding the permission the handler asks for, gets
\* the answer given for a product that does not exist: 404.
C17_OtherTenantIsNotFound ==
  /\ resp.op \in TargetOps /\ resp.role \in {"factory_manager", "factory_operator"}
  /\ resp.valid
  /\ (resp.required = "none" \/ resp.required \in PermissionsFor(resp.role))
  /\ resp.target_factory # Null /\ resp.target_factory # resp.factory_id
  => resp.status = 404

\* C18: the gateway answers a request without a session and a request with
\* the session of an inactive principal alike: on a protected page route a
\* redirect to the sign-in page, on an API route 401.
C18_InactiveAsNoSession ==
  /\ resp.op = "page" /\ isProtectedRoute(resp.path)
       /\ (resp.role = "none" \/ ~resp.is_active)
     => resp.status = 307 /\ resp.error = "/auth/signin"
  /\ resp.op = "products.GET" /\ (resp.role = "none" \/ ~resp.is_active)
     => resp.status = 401

\* C19: a page request under /admin is passed through only for an active
\* principal with role admin, one under /factory only for an active principal
\* with role admin, factory_manager or factory_operator, and a path matching
\* no protected pattern is passed through without a look at the session.
C19_RouteClassification ==
  resp.op = "page" =>
    /\ RouteTest(PROTECTED_ROUTES.ADMIN, resp.path) /\ resp.status = 200
       => resp.is_active /\ resp.role = "admin"
    /\ RouteTest(PROTECTED_ROUTES.FACTORY, resp.path) /\ resp.status = 200
       => /\ resp.is_active
          /\ resp.role \in {"admin", "factory_manager", "factory_operator"}
    /\ ~isProtectedRoute(resp.path) => resp.status = 200 /\ resp.role = "none"

\* the signed-in admin is passed through to a page under /admin
C19_Witness ==
  /\ resp.op = "page" /\ resp.path = <<"admin", "dashboard">>
  /\ resp.caller = "ua" /\ resp.is_active /\ resp.status = 200

\* C20: a createProduct whose generate() failed, by exhaustion or by an error
\* of the uniqueness query, is answered 500 after at most maxAttempts
\* attempts and has persisted no product row and no PRODUCT_CREATED entry:
\* every row and every entry belongs to a request that got past generate().
C20_GenerateFailureLeavesNothing ==
  /\ \A r \in Requests :
       /\ req[r].op = "createProduct" /\ req[r].pc = "done"
       /\ (req[r].oracleError \/ req[r].error = ExhaustionError)
       => /\ req[r].status = 500
          /\ req[r].attempts <= maxAttempts
          /\ ~req[r].generated
          /\ req[r].product_id = 0 /\ ProductsOf(r) = {}
          /\ req[r].audit = "none"
  /\ Len(products) = Cardinality({q \in Requests : req[q].product_id # 0})
  /\ \A i \in 1..Len(products) :
       \E q \in Requests : /\ req[q].product_id = products[i].id
                           /\ ~req[q].oracleError /\ req[q].error # ExhaustionError
  /\ \A i \in 1..Len(audit_logs) :
       audit_logs[i].event_name = "PRODUCT_CREATED" =>
         \E q \in Requests : /\ req[q].product_id = audit_logs[i].resource_id
                             /\ req[q].audit = "ok"
                             /\ ~req[q].oracleError /\ req[q].error # ExhaustionError

\* a createProduct gave up after maxAttempts colliding draws
C20_Witness ==
  \E r \in Requests :
    /\ req[r].op = "createProduct" /\ req[r].pc = "done"
    /\ req[r].error = ExhaustionError /\ req[r].attempts = maxAttempts

\* C21: a synchronous batch request with count > 100 and a generateBatch call
\* with count > 1000 are rejected with no identifier drawn and nothing
\* persisted, and a synchronous batch request never produces more than 100
\* identifiers.
GenerationLogged ==
  \E i \in 1..Len(audit_logs) : audit_logs[i].event_name = "QR_CODE_GENERATED"

C21_BatchCeilings ==
  /\ \A r \in Requests :
       /\ req[r].op = "qrBatch" /\ req[r].role # "none"
            /\ CountGreater(req[r].count, SyncBatchMax)
          => /\ req[r].pc = "done" /\ req[r].status = 400
             /\ req[r].qrCodes = EmptyBag /\ ~req[r].generated /\ ~GenerationLogged
       /\ req[r].op = "generateBatch" /\ CountGreater(req[r].count, BatchMax)
          => /\ req[r].pc = "done" /\ req[r].status = 500
             /\ req[r].qrCodes = EmptyBag /\ ~req[r].generated /\ ~GenerationLogged
       /\ req[r].op = "qrBatch" => BagCardinality(req[r].qrCodes) <= SyncBatchMax
       /\ products \in BatchCatalogs
  /\ resp.op = "batch.POST" /\ resp.submitted > MaxBatchItems
     => /\ resp.status = 400
        /\ \A b \in batch_operations : b.id # resp.batch_id
        /\ \A it \in batch_operation_items : it.batch_operation_id # resp.batch_id
  /\ \A b \in batch_operations : b.total_items <= MaxBatchItems

\* a synchronous batch request at its ceiling has produced 100 identifiers
C21_Witness ==
  \E r \in Requests :
    /\ req[r].op = "qrBatch" /\ req[r].pc = "done" /\ req[r].status = 200
    /\ req[r].count = [whole |-> SyncBatchMax - 1, half |-> TRUE]
    /\ BagCardinality(req[r].qrCodes) = SyncBatchMax

\* C22: hasPermission is false for every permission when the role is none of
\* the three roles or the user has no profile, it is true for an admin on
\* exactly the permissions of the catalog, and the answer depends on nothing
\* but the role and the permission.
C22_FailClosedRoleModel ==
  resp.op = "hasPermission" =>
    /\ (~resp.hasProfile \/ resp.role \notin ObjectValues(ROLES)) => resp.result = "false"
    /\ resp.hasProfile /\ resp.role = ROLES.ADMIN
         => (resp.result = "true" <=> resp.permission \in AllPermissions)
    /\ resp.hasProfile /\ resp.role \in ObjectValues(ROLES)
         => (resp.result = "true" <=> resp.permission \in ROLE_PERMISSIONS[resp.role])

\* timestamps the store holds for key inside the window that ends at now
StoredInWindow(key) ==
  IF key \in DOMAIN rateLimitStore
    THEN Len(Prune(rateLimitStore[key].requests, now - FindRateLimit(key[2]).windowMs))
    ELSE 0

LimitedKeys == {k \in Keys : FindRateLimit(k[2]) # NoRule}

\* C23: no admitted request's timestamp is lost: on every rate-limited key
\* the store holds at least as many timestamps inside the current window as
\* requests were admitted inside it.
C23_NoLostTimestamp ==
  \A k \in LimitedKeys :
    StoredInWindow(k) >= AdmittedInWindow({k}, now, FindRateLimit(k[2]).windowMs)

\* C24: after any sequence of requests and cleanups, no window
\* (t - windowMs, t] holds more than max admitted requests of one key, and a
\* key is missing from the store only if no request admitted on it lies in
\* its current window.
C24_NoUndercountAfterCleanup ==
  /\ \A k \in LimitedKeys, t \in 0..now :
       AdmittedInWindow({k}, t, FindRateLimit(k[2]).windowMs) <= FindRateLimit(k[2]).max
  /\ \A k \in LimitedKeys :
       k \notin DOMAIN rateLimitStore
         => AdmittedInWindow({k}, now, FindRateLimit(k[2]).windowMs) = 0

\* C25: every product row persisted by createProduct for a principal who is
\* not an admin carries the factory_id of that principal's profile.
C25_FactoryFromPrincipal ==
  \A i \in 1..Len(products) :
    profiles[products[i].created_by].role # ROLES.ADMIN
      => products[i].factory_id = profiles[products[i].created_by].factory_id

\* everything the program persists
persisted ==
  <<profiles, products, product_images, authentication_markers, batch_operations,
    batch_operation_items, audit_logs>>

\* C26: a step of generate() changes nothing that is persisted, whether it
\* returns a candidate, throws or goes on, so that a request abandoned after
\* generate() returned has left nothing behind and its identifier is still
\* free for every other request.
C26_GenerateWritesNothing ==
  [][(\E r \in Requests : req[r].pc = "gen" /\ req'[r] # req[r])
       => persisted' = persisted]_vars

\* a request holds a generated identifier it has not persisted, and another
\* request has persisted a product under the same identifier since
C26_Witness ==
  \E r, q \in Requests :
    /\ r # q /\ req[r].generated /\ req[r].pc \in {"check", "insert"}
    /\ req[q].generated /\ req[q].product_id # 0
    /\ req[q].qr_code = req[r].qr_code

\* C27: a batch generation that returns for an integer count has returned
\* count identifiers, no two of them alike.
C27_BatchDistinct ==
  \A r \in Requests :
    /\ req[r].op \in BatchOps /\ req[r].pc = "done" /\ req[r].status = 200
    /\ ~req[r].count.half
    => /\ BagCardinality(req[r].qrCodes) = req[r].count.whole
       /\ \A c \in BagToSet(req[r].qrCodes) : CopiesIn(c, req[r].qrCodes) = 1

\* C28: a step in which generate() returns a candidate returns one no row of
\* the catalog holds, after a query that did not fail; a step in which the
\* query fails ends the call at once with an error, with no candidate
\* returned and no further attempt.
C28_ReturnOnlyIfAbsent ==
  [][\A r \in Requests :
       req[r].pc = "gen" /\ req'[r] # req[r] =>
         /\ req'[r].pc = AfterGenerate(req[r].op)
              => /\ req'[r].generated /\ ~req'[r].oracleError
                 /\ \A i \in 1..Len(products) : products[i].qr_code # req'[r].qr_code
         /\ req'[r].oracleError
              => /\ req'[r].pc = "done" /\ req'[r].status = 500
                 /\ req'[r].qr_code = req[r].qr_code
                 /\ req'[r].generated = req[r].generated]_vars

\* a call ended by a failed query on a catalog that holds a row
C28_Witness ==
  \E r \in Requests :
    /\ req[r].oracleError /\ req[r].pc = "done" /\ req[r].status = 500
    /\ ~req[r].generated /\ Len(products) > 0

\* C29: extracting from the verification URL built for an identifier of the
\* format gives the identifier back, and extracting from a URL whose path is
\* not /product/<segment> with a segment of the format gives null.
C29_UrlRoundTrip ==
  /\ resp.op = "roundTrip" /\ validateQRCodeFormat(resp.qrCode)
       => resp.result = resp.qrCode
  /\ resp.op = "extract"
       /\ ~(/\ resp.url.valid /\ Len(resp.url.segments) = 2
            /\ resp.url.segments[1] = ProductSegment
            /\ validateQRCodeFormat(resp.url.segments[2]))
       => resp.result = NoQrCode

\* the candidate space of the application generator: CS- followed by a
\* number in [100000, 999999]
InCandidateSpace(qrCode) == validateQRCodeFormat(qrCode) /\ qrCode[4] # "0"

\* C30: generate_qr_code() raises its exception when exactly maxAttempts
\* candidates were found taken, as the application generator does, and every
\* identifier it returns is CS- followed by a number in [100000, 999999].
C30_SqlSameProtocol ==
  \A r \in Requests :
    req[r].op = "generate_qr_code" =>
      /\ req[r].attempts <= maxAttempts
      /\ req[r].error = ExhaustionError <=> req[r].attempts = maxAttempts
      /\ req[r].generated => InCandidateSpace(req[r].qr_code)

====
